---- MODULE Spec2Model ----
(***************************************************************************)
(* Verification model of nom-exif (rolandd/nom-exif).                      *)
(*                                                                         *)
(*  Spec        cr3_extract_exif (src/src/lib.rs:375-434): CR3 EXIF        *)
(*              reconstruction from the CMT1..CMT4 boxes of the moov body. *)
(*  SpecIfd     the IFD decoder state machine (spec.md 4.4).               *)
(*  SpecLoader  one Loader reused for two sequential parses (spec.md 3,    *)
(*              4.1).                                                      *)
(***************************************************************************)
EXTENDS Integers, Sequences, FiniteSets, TLC

VARIABLES
    \* ---- cr3_extract_exif ----
    pc,                     \* position inside cr3_extract_exif
    new_res,                \* outcome of BufLoader::new(reader)
    moov_res,               \* outcome of loader.load_and_parse(extract_moov_body_from_buf)
    moov_body,              \* &file_bytes[moov_body_range]: the boxes of the moov body
    box_idx,                \* index of the for loop over ["CMT1".."CMT4"]
    lookups,                \* box types find_box has been called with, in call order
    exif_data_segments,     \* Vec of the payloads pushed so far
    concatenated_cmt_data,  \* the flattened segments
    result,                 \* the value cr3_extract_exif returns
    \* ---- IFD decoder ----
    ifd_state,              \* AtHeader, AtIfd, EmittingEntries, AtNextIfdOrSubIfd, Done, Error
    ifd_graph,              \* the TIFF data: offset -> [ptrs, next]
    first_ifd,              \* offset of the first IFD, from the TIFF header
    ifd_cur,                \* offset of the IFD being decoded
    ifd_entry,              \* index of the next entry of ifd_cur to emit
    ifd_stack,              \* explicit offset stack of pending sub-IFD cursors
    ifd_visited,            \* visited-set of absolute offsets
    ifd_decoded,            \* log of the offsets whose IFD was decoded
    ifd_error,              \* error of the Error state
    \* ---- Loader ----
    ld_state,               \* Idle, Parsing
    ld_mem,                 \* the one reused allocation (bytes tagged with their source)
    ld_len,                 \* logical length of the LoadedBuffer inside ld_mem
    ld_src,                 \* source of the current parse (0: none yet)
    ld_read,                \* read cursor into the current source
    ld_ranges,              \* borrowed ranges handed out by the current parse
    ld_srclen               \* length of each of the two sources

cr3_vars == <<pc, new_res, moov_res, moov_body, box_idx, lookups,
              exif_data_segments, concatenated_cmt_data, result>>
ifd_vars == <<ifd_state, ifd_graph, first_ifd, ifd_cur, ifd_entry, ifd_stack,
              ifd_visited, ifd_decoded, ifd_error>>
ld_vars == <<ld_state, ld_mem, ld_len, ld_src, ld_read, ld_ranges, ld_srclen>>
vars == <<cr3_vars, ifd_vars, ld_vars>>

----------------------------------------------------------------------------
(* Byte strings                                                            *)

EXIF_IDENT == <<69, 120, 105, 102, 0, 0>>      \* "Exif\0\0"
TIFF_LE == <<73, 73, 42, 0>>                   \* "II" 2A 00
TIFF_BE == <<77, 77, 0, 42>>                   \* "MM" 00 2A

\* data[from..] of Rust, with from counted from 0
SliceFrom(data, from) == SubSeq(data, from + 1, Len(data))

\* data[from..to] of Rust
Slice(data, from, to) == SubSeq(data, from + 1, to)

RECURSIVE Flatten(_)
\* exif_data_segments.into_iter().flat_map(|d| d.to_vec()).collect()
Flatten(segs) ==
    IF segs = <<>> THEN <<>> ELSE Head(segs) \o Flatten(Tail(segs))

----------------------------------------------------------------------------
(* Results and errors                                                      *)

NoError == [variant |-> "", msg |-> ""]
Pending == [kind |-> "Pending", data |-> <<>>, err |-> NoError]
OkNone == [kind |-> "OkNone", data |-> <<>>, err |-> NoError]
OkSome(d) == [kind |-> "OkSome", data |-> d, err |-> NoError]
Failed(e) == [kind |-> "Err", data |-> <<>>, err |-> e]

\* impl Display for Error ("parse failed: Exif not found", lib.rs:275)
Display(e) ==
    CASE e.variant = "ParseFailed" -> "parse failed: " \o e.msg
      [] e.variant = "IOError" -> "io error: " \o e.msg
      [] OTHER -> e.msg

\* Result<bool, _> of check_exif_header
CheckOk(b) == [ok |-> TRUE, val |-> b, err |-> NoError]

\* crate::exif::check_exif_header: whether data begins with the EXIF signature
check_exif_header(data) ==
    CheckOk(Len(data) >= 6 /\ Slice(data, 0, 6) = EXIF_IDENT)

----------------------------------------------------------------------------
(* The moov body and find_box                                              *)

BoxTypes == <<"CMT1", "CMT2", "CMT3", "CMT4">>

\* an item of the moov body that does not parse as a box
BadBox == [type |-> "????", data |-> <<>>]

Found(d) == [tag |-> "Some", data |-> d]
NotFound == [tag |-> "None", data |-> <<>>]
FindErr == [tag |-> "Err", data |-> <<>>]

RECURSIVE find_box(_, _)
\* crate::bbox::find_box: walk the boxes of the body up to the first one of
\* the given type; a box that does not parse on the way is an error
find_box(body, box_type) ==
    IF body = <<>> THEN NotFound
    ELSE IF Head(body) = BadBox THEN FindErr
    ELSE IF Head(body).type = box_type THEN Found(Head(body).data)
    ELSE find_box(Tail(body), box_type)

----------------------------------------------------------------------------
(* cr3_extract_exif                                                        *)

\* the cause returned as it is, without the context
MoovBodyError_Unwrapped(e) == e

\* map_err of line 378
MoovBodyError(e) ==
    [variant |-> "ParseFailed", msg |-> "Failed to extract moov body: " \o Display(e)]

\* a segment put in front of the earlier ones
OnFindBox_Prepend(segs, found) ==
    CASE found.tag = "Some" -> [segs |-> <<found.data>> \o segs, ret |-> Pending]
      [] found.tag = "None" -> [segs |-> segs, ret |-> Pending]
      [] OTHER -> [segs |-> segs, ret |-> Pending]

\* the lookup error returned with ?
OnFindBox_Propagate(segs, found) ==
    CASE found.tag = "Some" -> [segs |-> Append(segs, found.data), ret |-> Pending]
      [] found.tag = "None" -> [segs |-> segs, ret |-> Pending]
      [] OTHER -> [segs |-> segs,
                   ret |-> Failed([variant |-> "ParseFailed", msg |-> "find box failed"])]

\* the match of lines 386-396: the segments after one lookup, and the value
\* the arm returns from the function (Pending: the loop goes on)
OnFindBox(segs, found) ==
    CASE found.tag = "Some" -> [segs |-> Append(segs, found.data), ret |-> Pending]
      [] found.tag = "None" -> [segs |-> segs, ret |-> Pending]
      [] OTHER -> [segs |-> segs, ret |-> Pending]

\* the signature found at offset 0 but not stripped
LocateTiff_KeepSignature(data) ==
    LET c1 == IF Len(data) >= 6 THEN check_exif_header(data) ELSE CheckOk(FALSE)
        c2 == IF Len(data) >= 10 THEN check_exif_header(SliceFrom(data, 4))
              ELSE CheckOk(FALSE)
        tiff == Len(data) >= 8
                /\ (  (Slice(data, 0, 2) = <<73, 73>> /\ Slice(data, 2, 4) = <<42, 0>>)
                   \/ (Slice(data, 0, 2) = <<77, 77>> /\ Slice(data, 2, 4) = <<0, 42>>))
    IN  IF ~c1.ok THEN Failed(c1.err)
        ELSE IF c1.val THEN OkSome(data)
        ELSE IF ~c2.ok THEN Failed(c2.err)
        ELSE IF c2.val THEN OkSome(SliceFrom(data, 10))
        ELSE IF tiff THEN OkSome(data)
        ELSE OkNone

\* the raw TIFF header tested before the prefixed signature
LocateTiff_TiffFirst(data) ==
    LET c1 == IF Len(data) >= 6 THEN check_exif_header(data) ELSE CheckOk(FALSE)
        c2 == IF Len(data) >= 10 THEN check_exif_header(SliceFrom(data, 4))
              ELSE CheckOk(FALSE)
        tiff == Len(data) >= 8
                /\ (  (Slice(data, 0, 2) = <<73, 73>> /\ Slice(data, 2, 4) = <<42, 0>>)
                   \/ (Slice(data, 0, 2) = <<77, 77>> /\ Slice(data, 2, 4) = <<0, 42>>))
    IN  IF ~c1.ok THEN Failed(c1.err)
        ELSE IF c1.val THEN OkSome(SliceFrom(data, 6))
        ELSE IF tiff THEN OkSome(data)
        ELSE IF ~c2.ok THEN Failed(c2.err)
        ELSE IF c2.val THEN OkSome(SliceFrom(data, 10))
        ELSE OkNone

\* the big-endian magic number compared in little-endian order
LocateTiff_BeMagic(data) ==
    LET c1 == IF Len(data) >= 6 THEN check_exif_header(data) ELSE CheckOk(FALSE)
        c2 == IF Len(data) >= 10 THEN check_exif_header(SliceFrom(data, 4))
              ELSE CheckOk(FALSE)
        tiff == Len(data) >= 8
                /\ (  (Slice(data, 0, 2) = <<73, 73>> /\ Slice(data, 2, 4) = <<42, 0>>)
                   \/ (Slice(data, 0, 2) = <<77, 77>> /\ Slice(data, 2, 4) = <<42, 0>>))
    IN  IF ~c1.ok THEN Failed(c1.err)
        ELSE IF c1.val THEN OkSome(SliceFrom(data, 6))
        ELSE IF ~c2.ok THEN Failed(c2.err)
        ELSE IF c2.val THEN OkSome(SliceFrom(data, 10))
        ELSE IF tiff THEN OkSome(data)
        ELSE OkNone

\* the data returned when no header form matches
LocateTiff_ElseData(data) ==
    LET c1 == IF Len(data) >= 6 THEN check_exif_header(data) ELSE CheckOk(FALSE)
        c2 == IF Len(data) >= 10 THEN check_exif_header(SliceFrom(data, 4))
              ELSE CheckOk(FALSE)
        tiff == Len(data) >= 8
                /\ (  (Slice(data, 0, 2) = <<73, 73>> /\ Slice(data, 2, 4) = <<42, 0>>)
                   \/ (Slice(data, 0, 2) = <<77, 77>> /\ Slice(data, 2, 4) = <<0, 42>>))
    IN  IF ~c1.ok THEN Failed(c1.err)
        ELSE IF c1.val THEN OkSome(SliceFrom(data, 6))
        ELSE IF ~c2.ok THEN Failed(c2.err)
        ELSE IF c2.val THEN OkSome(SliceFrom(data, 10))
        ELSE IF tiff THEN OkSome(data)
        ELSE OkSome(data)

\* lines 417-433: locate the start of the TIFF data
LocateTiff(data) ==
    LET c1 == IF Len(data) >= 6 THEN check_exif_header(data) ELSE CheckOk(FALSE)
        c2 == IF Len(data) >= 10 THEN check_exif_header(SliceFrom(data, 4))
              ELSE CheckOk(FALSE)
    IN  IF ~c1.ok THEN Failed(c1.err)
        ELSE IF c1.val THEN OkSome(SliceFrom(data, 6))
        ELSE IF ~c2.ok THEN Failed(c2.err)
        ELSE IF c2.val THEN OkSome(SliceFrom(data, 10))
        ELSE IF Len(data) >= 8
                /\ (  (Slice(data, 0, 2) = <<73, 73>> /\ Slice(data, 2, 4) = <<42, 0>>)
                   \/ (Slice(data, 0, 2) = <<77, 77>> /\ Slice(data, 2, 4) = <<0, 42>>))
             THEN OkSome(data)
        ELSE OkNone

\* no CMT box reported as an error
ExtractTiff_ErrOnEmpty(segs) ==
    IF segs = <<>> THEN Failed([variant |-> "ExifNotFound", msg |-> "Exif not found"])
    ELSE IF Flatten(segs) = <<>> THEN OkNone
    ELSE IF Len(Flatten(segs)) < 2 THEN OkNone
    ELSE LocateTiff(Flatten(segs))

\* lines 399-415: the early "no data" returns, then the header rules
ExtractTiff(segs) ==
    IF segs = <<>> THEN OkNone
    ELSE IF Flatten(segs) = <<>> THEN OkNone
    ELSE IF Len(Flatten(segs)) < 2 THEN OkNone
    ELSE LocateTiff(Flatten(segs))

\* ---- the files cr3_extract_exif is run on ----

Absent == <<-1>>

\* payloads of a CMT box: pieces whose concatenations make every header form
Payloads == {<<>>, <<69>>, <<0, 0>>, <<69, 120, 105, 102>>, TIFF_LE, TIFF_BE}

\* orders in which the CMT boxes lie in the file
Orders == {<<1, 2, 3, 4>>, <<4, 3, 2, 1>>, <<2, 4, 1, 3>>}

\* a box of another type, which every lookup walks over
OtherBox == [type |-> "CRAW", data |-> <<1, 2>>]

RECURSIVE BoxesOf(_, _)
\* the CMT boxes of the file, in file order
BoxesOf(present, order) ==
    IF order = <<>> THEN <<>>
    ELSE (IF present[Head(order)] = Absent THEN <<>>
          ELSE <<[type |-> BoxTypes[Head(order)], data |-> present[Head(order)]]>>)
         \o BoxesOf(present, Tail(order))

\* the body with a box that does not parse put after its first k boxes
WithBadBox(body, k) == SubSeq(body, 1, k) \o <<BadBox>> \o SubSeq(body, k + 1, Len(body))

\* moov_body is one of the bodies: boxes in some order, possibly with a box
\* that does not parse after the first k of them
IsMoovBody(body) ==
    \E present \in [1..4 -> Payloads \cup {Absent}], order \in Orders :
        LET good == <<OtherBox>> \o BoxesOf(present, order)
        IN  \/ body = good
            \/ \E k \in 1..Len(good) : body = WithBadBox(good, k)

LoadErrors ==
    { [variant |-> "IOError", msg |-> "failed to fill whole buffer"],
      [variant |-> "ParseFailed", msg |-> "moov not found"] }

ResOk == [ok |-> TRUE, err |-> NoError]
ResErr(e) == [ok |-> FALSE, err |-> e]

IfdIdle ==
    /\ ifd_state = "Idle" /\ ifd_graph = <<>> /\ first_ifd = 0 /\ ifd_cur = 0
    /\ ifd_entry = 0 /\ ifd_stack = <<>> /\ ifd_visited = {} /\ ifd_decoded = <<>>
    /\ ifd_error = ""

LoaderIdle ==
    /\ ld_state = "Off" /\ ld_mem = <<>> /\ ld_len = 0 /\ ld_src = 0 /\ ld_read = 0
    /\ ld_ranges = {} /\ ld_srclen = <<>>

Cr3Idle ==
    /\ pc = "off" /\ new_res = ResOk /\ moov_res = ResOk /\ moov_body = <<>>
    /\ box_idx = 0 /\ lookups = <<>> /\ exif_data_segments = <<>>
    /\ concatenated_cmt_data = <<>> /\ result = Pending

Init ==
    /\ pc = "new"
    /\ \/ new_res = ResOk /\ moov_res = ResOk /\ IsMoovBody(moov_body)
       \/ new_res = ResOk /\ moov_res \in {ResErr(e) : e \in LoadErrors} /\ moov_body = <<>>
       \/ new_res \in {ResErr(e) : e \in LoadErrors} /\ moov_res = ResOk /\ moov_body = <<>>
    /\ box_idx = 1
    /\ lookups = <<>>
    /\ exif_data_segments = <<>>
    /\ concatenated_cmt_data = <<>>
    /\ result = Pending
    /\ IfdIdle
    /\ LoaderIdle

\* line 376: BufLoader::new(reader)?
NewLoader ==
    /\ pc = "new"
    /\ IF new_res.ok
       THEN pc' = "load" /\ result' = result
       ELSE pc' = "done" /\ result' = Failed(new_res.err)
    /\ UNCHANGED <<new_res, moov_res, moov_body, box_idx, lookups,
                   exif_data_segments, concatenated_cmt_data, ifd_vars, ld_vars>>

\* lines 377-381: load_and_parse(extract_moov_body_from_buf).map_err(..)?
LoadMoovBody ==
    /\ pc = "load"
    /\ IF moov_res.ok
       THEN pc' = "find" /\ result' = result
       ELSE pc' = "done" /\ result' = Failed(MoovBodyError(moov_res.err))
    /\ UNCHANGED <<new_res, moov_res, moov_body, box_idx, lookups,
                   exif_data_segments, concatenated_cmt_data, ifd_vars, ld_vars>>

\* lines 385-397: one iteration of the loop over the four box types
FindCmtBox ==
    /\ pc = "find"
    /\ box_idx <= Len(BoxTypes)
    /\ LET out == OnFindBox(exif_data_segments, find_box(moov_body, BoxTypes[box_idx]))
       IN  /\ exif_data_segments' = out.segs
           /\ lookups' = Append(lookups, BoxTypes[box_idx])
           /\ box_idx' = box_idx + 1
           /\ IF out.ret # Pending
              THEN pc' = "done" /\ result' = out.ret
              ELSE pc' = pc /\ result' = result
    /\ UNCHANGED <<new_res, moov_res, moov_body, concatenated_cmt_data, ifd_vars, ld_vars>>

\* lines 399-433: concatenate the segments and locate the TIFF data
ReturnExif ==
    /\ pc = "find"
    /\ box_idx > Len(BoxTypes)
    /\ concatenated_cmt_data' = Flatten(exif_data_segments)
    /\ result' = ExtractTiff(exif_data_segments)
    /\ pc' = "done"
    /\ UNCHANGED <<new_res, moov_res, moov_body, box_idx, lookups,
                   exif_data_segments, ifd_vars, ld_vars>>

Next == NewLoader \/ LoadMoovBody \/ FindCmtBox \/ ReturnExif

Spec == Init /\ [][Next]_vars

----------------------------------------------------------------------------
(* Properties of cr3_extract_exif                                          *)

\* the call ran to its end over a moov body
Extracted == pc = "done" /\ new_res.ok /\ moov_res.ok

BeginsWith(data, prefix) ==
    /\ Len(data) >= Len(prefix)
    /\ \A i \in 1..Len(prefix) : data[i] = prefix[i]

\* the EXIF signature lies at bytes 4..10
SignatureAt4(data) ==
    /\ Len(data) >= 10
    /\ \A i \in 1..6 : data[i + 4] = EXIF_IDENT[i]

RawTiffHeader(data) == BeginsWith(data, TIFF_LE) \/ BeginsWith(data, TIFF_BE)

HasBadBox == \E i \in 1..Len(moov_body) : moov_body[i] = BadBox

\* payload of the box of this type that lies in the body before any box
\* that does not parse; nothing when there is none
PayloadOf(box_type) ==
    LET at == {i \in 1..Len(moov_body) :
                  /\ moov_body[i].type = box_type
                  /\ \A j \in 1..i : moov_body[j] # BadBox}
    IN  IF at = {} THEN <<>> ELSE moov_body[CHOOSE i \in at : TRUE].data

InFixedOrder ==
    PayloadOf("CMT1") \o PayloadOf("CMT2") \o PayloadOf("CMT3") \o PayloadOf("CMT4")

TypeAt(i) == moov_body[i].type

\* C1: the reconstructed bytes are the payloads of CMT1, CMT2, CMT3, CMT4 of
\* the moov body in that order, whatever the order of the boxes in the file;
\* an absent box adds nothing and does not make the call fail.
C1_FixedOrder ==
    (Extracted /\ ~HasBadBox) =>
        /\ concatenated_cmt_data = InFixedOrder
        /\ result.kind # "Err"

\* C1 witness: CMT2 lies before CMT1 in the file, a box is absent, and the
\* bytes of CMT1 come first in the reconstruction.
C1_Witness ==
    /\ Extracted /\ ~HasBadBox
    /\ \E i, j \in 1..Len(moov_body) :
          i < j /\ TypeAt(i) = "CMT2" /\ TypeAt(j) = "CMT1"
          /\ moov_body[i].data = TIFF_BE /\ moov_body[j].data = TIFF_LE
    /\ \A i \in 1..Len(moov_body) : TypeAt(i) # "CMT3"
    /\ concatenated_cmt_data = TIFF_LE \o TIFF_BE \o PayloadOf("CMT4")
    /\ result = OkSome(concatenated_cmt_data)

\* C2: a payload that begins with "Exif\0\0" is returned without its first
\* 6 bytes, and nothing else is removed.
C2_StripSignature ==
    (Extracted /\ BeginsWith(concatenated_cmt_data, EXIF_IDENT)) =>
        result = OkSome(SubSeq(concatenated_cmt_data, 7, Len(concatenated_cmt_data)))

\* C2 witness: the signature followed by a TIFF header; the header is returned.
C2_Witness ==
    /\ Extracted
    /\ concatenated_cmt_data = EXIF_IDENT \o TIFF_LE
    /\ result = OkSome(TIFF_LE)

\* C3: a payload with the signature at bytes 4..10 and not at 0 is returned
\* without its first 10 bytes, also when the 4-byte prefix is a TIFF header.
C3_StripPrefixedSignature ==
    (Extracted /\ ~BeginsWith(concatenated_cmt_data, EXIF_IDENT)
               /\ SignatureAt4(concatenated_cmt_data)) =>
        result = OkSome(SubSeq(concatenated_cmt_data, 11, Len(concatenated_cmt_data)))

\* C3 witness: the prefix is a little-endian TIFF header and 10 bytes go.
C3_Witness ==
    /\ Extracted
    /\ concatenated_cmt_data = TIFF_LE \o EXIF_IDENT \o TIFF_BE
    /\ result = OkSome(TIFF_BE)

\* C4 as stated: a payload that begins with a raw TIFF header and matches no
\* signature rule is returned unchanged at every length.
C4_RawTiffAnyLength ==
    (Extracted /\ RawTiffHeader(concatenated_cmt_data)
               /\ ~BeginsWith(concatenated_cmt_data, EXIF_IDENT)
               /\ ~SignatureAt4(concatenated_cmt_data)) =>
        result = OkSome(concatenated_cmt_data)

\* C4 amended: such a payload is returned unchanged when it has at least 8
\* bytes, and is "no data" when it has fewer; never an error.
C4_RawTiffFrom8 ==
    (Extracted /\ RawTiffHeader(concatenated_cmt_data)
               /\ ~BeginsWith(concatenated_cmt_data, EXIF_IDENT)
               /\ ~SignatureAt4(concatenated_cmt_data)) =>
        IF Len(concatenated_cmt_data) >= 8
        THEN result = OkSome(concatenated_cmt_data)
        ELSE result = OkNone

\* C4 witness: a big-endian header and four more bytes, returned as they are.
C4_Witness ==
    /\ Extracted
    /\ concatenated_cmt_data = TIFF_BE \o <<0, 0>> \o <<0, 0>>
    /\ result = OkSome(concatenated_cmt_data)

\* C5: a payload shorter than 2 bytes gives Ok(None).
C5_TooShort ==
    (Extracted /\ Len(concatenated_cmt_data) < 2) => result = OkNone

\* C5 witness: no CMT box at all was found, and the call reports "no data".
C5_Witness ==
    /\ Extracted
    /\ exif_data_segments = <<>>
    /\ lookups = BoxTypes
    /\ result = OkNone

\* C6: a payload of 2 bytes or more with none of the three header forms
\* gives Ok(None).
C6_NoHeader ==
    (Extracted /\ Len(concatenated_cmt_data) >= 2
               /\ ~BeginsWith(concatenated_cmt_data, EXIF_IDENT)
               /\ ~SignatureAt4(concatenated_cmt_data)
               /\ ~RawTiffHeader(concatenated_cmt_data)) =>
        result = OkNone

\* C6 witness: 12 bytes on which every rule is tried and none matches.
C6_Witness ==
    /\ Extracted
    /\ concatenated_cmt_data = <<0, 0>> \o TIFF_LE \o <<0, 0>> \o TIFF_BE
    /\ result = OkNone

\* C9: a lookup that fails is skipped like an absent box: the four lookups
\* all run, the payloads found are concatenated in CMT1..CMT4 order, and
\* the call returns no error.
C9_LookupErrorSkipped ==
    (pc = "done" /\ new_res.ok /\ moov_res.ok /\ HasBadBox) =>
        /\ lookups = BoxTypes
        /\ concatenated_cmt_data = InFixedOrder
        /\ result.kind # "Err"

\* C9 witness: CMT2 lies before the box that does not parse and CMT1 after
\* it; CMT2's payload alone is reconstructed.
C9_Witness ==
    /\ Extracted
    /\ \E i, j, k \in 1..Len(moov_body) :
          /\ i < j /\ j < k
          /\ TypeAt(i) = "CMT2" /\ moov_body[j] = BadBox /\ TypeAt(k) = "CMT1"
          /\ moov_body[i].data = TIFF_LE /\ moov_body[k].data = <<69>>
    /\ lookups = BoxTypes
    /\ concatenated_cmt_data = TIFF_LE \o TIFF_BE
    /\ result = OkSome(TIFF_LE \o TIFF_BE)

\* text of the cause that load_and_parse failed with
C10_Cause ==
    CASE moov_res.err.variant = "IOError" -> "io error: failed to fill whole buffer"
      [] OTHER -> "parse failed: moov not found"

\* C10: when the moov body cannot be located the call returns ParseFailed
\* naming the moov extraction and its cause, and looks up no CMT box.
C10_MoovFailure ==
    (new_res.ok /\ ~moov_res.ok) =>
        /\ lookups = <<>>
        /\ result.kind \notin {"OkSome", "OkNone"}
        /\ pc = "done" =>
              /\ result.kind = "Err"
              /\ result.err.variant = "ParseFailed"
              /\ result.err.msg = "Failed to extract moov body: " \o C10_Cause

\* C10 witness: the load failed on I/O and the call has returned.
C10_Witness ==
    /\ pc = "done" /\ new_res.ok /\ ~moov_res.ok
    /\ moov_res.err.variant = "IOError"
    /\ result.kind = "Err"

----------------------------------------------------------------------------
(* The IFD decoder (spec.md 4.4)                                           *)
(*   AtHeader -> AtIfd(offset) -> EmittingEntries -> AtNextIfdOrSubIfd     *)
(*            -> Done | Error                                              *)

\* number of IFD offsets of the TIFF data
MaxOffset == 2

IfdOffsets == 1..MaxOffset

\* an IFD: a plain entry, then a pointer entry (EXIF-IFD, GPS-IFD or
\* Interop-IFD pointer) when ptr # 0, then the next-IFD offset (0: end)
IfdGraphs == [IfdOffsets -> [ptr : 0..MaxOffset, next : 0..MaxOffset]]

\* the 12-byte records of the IFD at this offset
EntriesAt(graph, offset) ==
    <<[tag |-> "Make", target |-> 0]>>
    \o (IF graph[offset].ptr = 0 THEN <<>>
        ELSE <<[tag |-> "ExifOffset", target |-> graph[offset].ptr]>>)

\* the visited-set never answers
IsRepeatVisit_Never(offset, visited) == FALSE

\* the visited-set test
IsRepeatVisit(offset, visited) == offset \in visited

\* the cursors left after the entries of an IFD: its sub-IFDs (pushed while
\* emitting, on top), then its next IFD, then the older cursors
WithNextIfd(stack, subs, next) ==
    SubSeq(stack, 1, subs)
    \o (IF next = 0 THEN <<>> ELSE <<next>>)
    \o SubSeq(stack, subs + 1, Len(stack))

PointerCount(entries) == Cardinality({i \in 1..Len(entries) : entries[i].target # 0})

IfdInit ==
    /\ ifd_state = "AtHeader"
    /\ ifd_graph \in IfdGraphs
    /\ first_ifd \in IfdOffsets
    /\ ifd_cur = 0
    /\ ifd_entry = 0
    /\ ifd_stack = <<>>
    /\ ifd_visited = {}
    /\ ifd_decoded = <<>>
    /\ ifd_error = ""
    /\ Cr3Idle
    /\ LoaderIdle

\* byte-order marker and offset of the first IFD
ReadHeader ==
    /\ ifd_state = "AtHeader"
    /\ ifd_state' = "AtIfd"
    /\ ifd_cur' = first_ifd
    /\ UNCHANGED <<ifd_graph, first_ifd, ifd_entry, ifd_stack, ifd_visited,
                   ifd_decoded, ifd_error, cr3_vars, ld_vars>>

\* a visit of an offset: a repeat visit fails with CorruptData, a first
\* visit records the offset and reads the entry count (the log of decoded
\* IFDs is capped one past the number of offsets)
VisitIfd ==
    /\ ifd_state = "AtIfd"
    /\ Len(ifd_decoded) <= MaxOffset
    /\ IF IsRepeatVisit(ifd_cur, ifd_visited)
       THEN /\ ifd_state' = "Error"
            /\ ifd_error' = "CorruptData"
            /\ UNCHANGED <<ifd_entry, ifd_visited, ifd_decoded>>
       ELSE /\ ifd_state' = "EmittingEntries"
            /\ ifd_visited' = ifd_visited \cup {ifd_cur}
            /\ ifd_decoded' = Append(ifd_decoded, ifd_cur)
            /\ ifd_entry' = 1
            /\ UNCHANGED ifd_error
    /\ UNCHANGED <<ifd_graph, first_ifd, ifd_cur, ifd_stack, cr3_vars, ld_vars>>

\* one entry emitted; a pointer entry pushes a cursor on the offset stack
EmitEntry ==
    /\ ifd_state = "EmittingEntries"
    /\ LET entries == EntriesAt(ifd_graph, ifd_cur)
       IN  /\ ifd_entry <= Len(entries)
           /\ ifd_stack' = IF entries[ifd_entry].target # 0
                           THEN <<entries[ifd_entry].target>> \o ifd_stack
                           ELSE ifd_stack
           /\ ifd_entry' = ifd_entry + 1
           /\ ifd_state' = IF ifd_entry = Len(entries) THEN "AtNextIfdOrSubIfd"
                           ELSE "EmittingEntries"
    /\ UNCHANGED <<ifd_graph, first_ifd, ifd_cur, ifd_visited, ifd_decoded,
                   ifd_error, cr3_vars, ld_vars>>

\* the trailing next-IFD offset is read and the next cursor is taken,
\* depth-first; no cursor left: Done
NextIfdOrSubIfd ==
    /\ ifd_state = "AtNextIfdOrSubIfd"
    /\ LET cursors == WithNextIfd(ifd_stack,
                                  PointerCount(EntriesAt(ifd_graph, ifd_cur)),
                                  ifd_graph[ifd_cur].next)
       IN  IF cursors = <<>>
           THEN ifd_state' = "Done" /\ UNCHANGED <<ifd_cur, ifd_stack>>
           ELSE /\ ifd_state' = "AtIfd"
                /\ ifd_cur' = Head(cursors)
                /\ ifd_stack' = Tail(cursors)
    /\ UNCHANGED <<ifd_graph, first_ifd, ifd_entry, ifd_visited, ifd_decoded,
                   ifd_error, cr3_vars, ld_vars>>

IfdNext == ReadHeader \/ VisitIfd \/ EmitEntry \/ NextIfdOrSubIfd

\* the consumer drains the iterator: a step that can be taken is taken
SpecIfd == IfdInit /\ [][IfdNext]_vars /\ WF_vars(IfdNext)

----------------------------------------------------------------------------
(* One Loader reused for two sequential parses (spec.md 3, 4.1)            *)

\* longest source
MaxSrcLen == 3

\* most borrowed ranges held at a time
MaxRanges == 2

\* byte i of source src
SrcByte(src, i) == <<src, i>>

\* the buffer's length is left as it is when a parse begins
ClearedLen_Kept(len) == len

\* the LoadedBuffer is emptied when a parse begins; its allocation is kept
ClearedLen(len) == 0

\* n bytes read from the source at its read cursor, put at the end of the
\* LoadedBuffer (over what the allocation held there, or growing it)
Filled(mem, len, src, read, n) ==
    [i \in 1..(IF len + n > Len(mem) THEN len + n ELSE Len(mem)) |->
        IF i > len /\ i <= len + n THEN SrcByte(src, read + (i - len)) ELSE mem[i]]

\* the bytes a borrowed range (start, length) gives access to
RangeBytes(mem, range) == {mem[i] : i \in (range[1] + 1)..(range[1] + range[2])}

LoaderInit ==
    /\ ld_state = "Idle"
    /\ ld_mem = <<>>
    /\ ld_len = 0
    /\ ld_src = 0
    /\ ld_read = 0
    /\ ld_ranges = {}
    /\ ld_srclen \in [1..2 -> 1..MaxSrcLen]
    /\ Cr3Idle
    /\ IfdIdle

\* a parse of the next source begins on the same Loader
BeginParse ==
    /\ ld_state = "Idle"
    /\ ld_src < 2
    /\ ld_state' = "Parsing"
    /\ ld_src' = ld_src + 1
    /\ ld_len' = ClearedLen(ld_len)
    /\ ld_read' = 0
    /\ ld_ranges' = {}
    /\ UNCHANGED <<ld_mem, ld_srclen, cr3_vars, ifd_vars>>

\* parse_fn needs more bytes: the Loader reads some from the source
LoadMore ==
    /\ ld_state = "Parsing"
    /\ \E n \in 1..(ld_srclen[ld_src] - ld_read) :
          /\ ld_mem' = Filled(ld_mem, ld_len, ld_src, ld_read, n)
          /\ ld_len' = ld_len + n
          /\ ld_read' = ld_read + n
    /\ UNCHANGED <<ld_state, ld_src, ld_ranges, ld_srclen, cr3_vars, ifd_vars>>

\* parse_fn hands out a borrowed range into the LoadedBuffer
BorrowRange ==
    /\ ld_state = "Parsing"
    /\ Cardinality(ld_ranges) < MaxRanges
    /\ \E start \in 0..(ld_len - 1) :
          \E length \in 1..(ld_len - start) :
             /\ <<start, length>> \notin ld_ranges
             /\ ld_ranges' = ld_ranges \cup {<<start, length>>}
    /\ UNCHANGED <<ld_state, ld_mem, ld_len, ld_src, ld_read, ld_srclen,
                   cr3_vars, ifd_vars>>

\* the parse call returns; what it produced lives until the next parse
EndParse ==
    /\ ld_state = "Parsing"
    /\ ld_state' = "Idle"
    /\ UNCHANGED <<ld_mem, ld_len, ld_src, ld_read, ld_ranges, ld_srclen,
                   cr3_vars, ifd_vars>>

LoaderNext == BeginParse \/ LoadMore \/ BorrowRange \/ EndParse

SpecLoader == LoaderInit /\ [][LoaderNext]_vars

----------------------------------------------------------------------------
(* Properties of the IFD decoder and of the Loader                         *)

NoRepeat(log) == \A i, j \in 1..Len(log) : i # j => log[i] # log[j]

\* C7: a visit of an offset visited before ends the iteration in Error with
\* CorruptData; no offset is decoded twice, at most one IFD per offset is
\* decoded, and every run reaches Done or Error.
C7_CyclesEnd ==
    /\ [][(ifd_state = "AtIfd" /\ ifd_cur \in {ifd_decoded[i] : i \in 1..Len(ifd_decoded)})
             => (ifd_state' = "Error" /\ ifd_error' = "CorruptData")]_vars
    /\ [](NoRepeat(ifd_decoded) /\ Len(ifd_decoded) <= MaxOffset)
    /\ [](ifd_state = "Error" => ifd_error = "CorruptData")
    /\ <>(ifd_state \in {"Done", "Error"})

\* C7 witness: the sub-IFD pointer of the second IFD leads back to the
\* first, and the decoder has stopped in Error.
C7_Witness ==
    /\ ifd_state = "Error"
    /\ ifd_error = "CorruptData"
    /\ ifd_decoded = <<1, 2>>
    /\ ifd_graph[1].ptr = 0 /\ ifd_graph[1].next = 2
    /\ ifd_graph[2].ptr = 1
    /\ ifd_cur = 1

\* the bytes reachable through the Loader: the LoadedBuffer and the
\* borrowed ranges
Exposed ==
    {ld_mem[i] : i \in 1..ld_len} \cup UNION {RangeBytes(ld_mem, r) : r \in ld_ranges}

====
